---- MODULE Spec2Model ----
(***************************************************************************)
(* Model of redact.py (arccoder/redact-docx): process_matches, the regex   *)
(* matcher it is fed from, and the run loop of redact_document.            *)
(*                                                                         *)
(* Text is a sequence of one-character strings.  A match pair is <<s, e>>, *)
(* the half-open span [s, e) of Python's (match.start(), match.end()).     *)
(* Indices keep Python's 0-based values; a sequence element at Python      *)
(* index i is element i + 1 here.                                          *)
(***************************************************************************)
EXTENDS Integers, Sequences, FiniteSets, TLC

VARIABLES
    doc,           \* doc.paragraphs: sequence of paragraphs, each a sequence of runs
    pattern,       \* argument pattern: sequence of pattern fragments
    replace_with,  \* argument replace_with: None or Some(text)
    color,         \* argument color
    para_index,    \* position of the for loop over doc.paragraphs (-1 before it)
    run_index,     \* local run_index of the while loop
    pc,            \* "loop" | "saved" | "failed" | "call" | "return"
    match_pairs,   \* local match_pairs
    run_text,      \* run.text as it was handed to finditer / process_matches
    highlights,    \* local highlights
    matches,       \* local matches
    path,          \* branch the last iteration took
    split_by,      \* argument of the last split_run_by call (history)
    new_runs,      \* number of runs the last split_run_by call returned (history)
    before,        \* runs of the current paragraph when its loop began (history)
    visited,       \* ids of the runs matched in the current paragraph (history)
    pass,          \* number of the running invocation of redact_document
    first_pass     \* the document as the first invocation saved it (history)

vars == <<doc, pattern, replace_with, color, para_index, run_index, pc,
          match_pairs, run_text, highlights, matches, path, split_by, new_runs,
          before, visited, pass, first_pass>>

(***************************************************************************)
(* Bounds of the model.                                                    *)
(***************************************************************************)
MaxSpans == 3       \* match pairs in a list handed to process_matches alone
MaxPMLen == 5       \* text length handed to process_matches alone
MaxRuns == 2        \* runs of a paragraph as loaded
MaxChars == 3       \* characters of a paragraph as loaded, all runs together
MaxPasses == 2      \* invocations of redact_document on the same file

(***************************************************************************)
(* Small helpers.                                                          *)
(***************************************************************************)
None == <<>>
Some(x) == <<x>>

Last(s) == s[Len(s)]

MinOf(S) == CHOOSE x \in S : \A y \in S : x <= y

MaxOf(S) == CHOOSE x \in S : \A y \in S : x >= y

Chars(n, c) == [i \in 1..n |-> c]

StrictlyIncreasing(s) == \A i \in 1..(Len(s) - 1) : s[i] < s[i + 1]

SeqsUpTo(S, n) == UNION {[1..k -> S] : k \in 0..n}

RECURSIVE Concat(_)
Concat(ss) == IF ss = <<>> THEN <<>> ELSE Head(ss) \o Concat(Tail(ss))

(***************************************************************************)
(* process_matches                                                         *)
(***************************************************************************)
\* lines 30-38: the first match pair
PMHead(mp) ==
    LET lead == mp[1][1] # 0
    IN  [highlights |-> (IF lead THEN <<FALSE>> ELSE <<>>) \o <<TRUE>>,
         matches    |-> (IF lead THEN <<0>> ELSE <<>>) \o <<mp[1][1], mp[1][2]>>,
         prev       |-> mp[1][2]]

\* A loop body that forgets the flag of the gap before a match (line 47 lost).
PMLoopBodyNoGapFlag(acc, pair) ==
    LET gap == acc.prev # pair[1]
    IN  [highlights |-> acc.highlights \o <<TRUE>>,
         matches    |-> acc.matches \o (IF gap THEN <<pair[1]>> ELSE <<>>) \o <<pair[2]>>,
         prev       |-> pair[2]]

\* A loop body that merges a contiguous match into the segment before it.
PMLoopBodyMerge(acc, pair) ==
    IF acc.prev # pair[1]
    THEN [highlights |-> acc.highlights \o <<FALSE, TRUE>>,
          matches    |-> acc.matches \o <<pair[1], pair[2]>>,
          prev       |-> pair[2]]
    ELSE [highlights |-> acc.highlights,
          matches    |-> SubSeq(acc.matches, 1, Len(acc.matches) - 1) \o <<pair[2]>>,
          prev       |-> pair[2]]

\* lines 46-53: the body of the loop over the remaining pairs
PMLoopBody(acc, pair) ==
    LET gap == acc.prev # pair[1]
    IN  [highlights |-> acc.highlights \o (IF gap THEN <<FALSE>> ELSE <<>>) \o <<TRUE>>,
         matches    |-> acc.matches \o (IF gap THEN <<pair[1]>> ELSE <<>>) \o <<pair[2]>>,
         prev       |-> pair[2]]

\* line 40: for idx in range(1, len(match_pairs)); idx is Python's index
RECURSIVE PMLoop(_, _, _)
PMLoop(acc, mp, idx) ==
    IF idx >= Len(mp) THEN acc
    ELSE PMLoop(PMLoopBody(acc, mp[idx + 1]), mp, idx + 1)

\* A tail that never appends the trailing segment (lines 56-58 lost).
PMTailNone(acc, text) ==
    [highlights |-> acc.highlights, matches |-> acc.matches]

\* lines 56-58: the trailing segment
PMTail(acc, text) ==
    IF Last(acc.matches) # Len(text)
    THEN [highlights |-> acc.highlights \o <<FALSE>>,
          matches    |-> acc.matches \o <<Len(text)>>]
    ELSE [highlights |-> acc.highlights, matches |-> acc.matches]

process_matches(mp, text) ==
    IF Len(mp) > 0
    THEN PMTail(PMLoop(PMHead(mp), mp, 1), text)
    ELSE [highlights |-> <<>>, matches |-> <<>>]

(***************************************************************************)
(* re.finditer('|'.join(pattern), run.text).  A pattern fragment is a      *)
(* literal word (the empty word included), `.*`, or a literal anchored     *)
(* with `^`.  The text holds no newline, so `.` matches every character    *)
(* and `^` holds at index 0 only.                                          *)
(***************************************************************************)
Lit(w) == [kind |-> "lit", w |-> w]
DotStar == [kind |-> "dotstar", w |-> <<>>]
Bol(w) == [kind |-> "bol", w |-> w]

\* End of the match of one fragment at index s, or -1.  must_advance is the
\* matcher's rule after an empty match: no empty match at the same index.
MatchEnd(frag, text, s, must_advance) ==
    LET n   == Len(frag.w)
        fit == s + n <= Len(text) /\ SubSeq(text, s + 1, s + n) = frag.w
    IN  CASE frag.kind = "lit" ->
               IF fit /\ ~(must_advance /\ n = 0) THEN s + n ELSE -1
          [] frag.kind = "bol" ->
               IF s = 0 /\ fit /\ ~(must_advance /\ n = 0) THEN s + n ELSE -1
          [] frag.kind = "dotstar" ->
               IF must_advance /\ s = Len(text) THEN -1 ELSE Len(text)

\* The alternation: the first fragment that matches at s wins.
AltEnd(pat, text, s, must_advance) ==
    LET hits == {i \in 1..Len(pat) : MatchEnd(pat[i], text, s, must_advance) # -1}
    IN  IF hits = {} THEN -1 ELSE MatchEnd(pat[MinOf(hits)], text, s, must_advance)

\* The leftmost match at or after pos, or None.
Search(pat, text, pos, must_advance) ==
    LET starts == {s \in pos..Len(text) :
                      AltEnd(pat, text, s, must_advance /\ s = pos) # -1}
    IN  IF starts = {} THEN None
        ELSE LET s == MinOf(starts)
             IN  <<s, AltEnd(pat, text, s, must_advance /\ s = pos)>>

RECURSIVE FindFrom(_, _, _, _)
FindFrom(pat, text, pos, must_advance) ==
    LET m == Search(pat, text, pos, must_advance)
    IN  IF m = None THEN <<>>
        ELSE <<m>> \o FindFrom(pat, text, m[2], m[2] = m[1])

\* line 102
finditer(pat, text) == FindFrom(pat, text, 0, FALSE)

(***************************************************************************)
(* redact_colors                                                           *)
(***************************************************************************)
redact_colors(c) ==
    CASE c = "white"  -> [rgb |-> "FFFFFF", highlight |-> "WHITE"]
      [] c = "yellow" -> [rgb |-> "FFFF00", highlight |-> "YELLOW"]
      [] OTHER        -> [rgb |-> "000000", highlight |-> "BLACK"]

(***************************************************************************)
(* Runs.  A run is [text, style, highlight_color, rgb, id]: style stands   *)
(* for the formatting the run was loaded with, id for the run object.      *)
(***************************************************************************)
NewRun(text, i) ==
    [text |-> text, style |-> i, highlight_color |-> "None", rgb |-> "None", id |-> i]

\* run_tools.split_run_by(para, run, split_by): the run at position k keeps
\* its place and the first slice; the other slices are new runs, clones of
\* the run's formatting, inserted right after it in order.
split_run_by(runs, k, sb) ==
    LET text  == runs[k].text
        cuts  == <<0>> \o sb \o <<Len(text)>>
        fresh == MaxOf({runs[j].id : j \in 1..Len(runs)})
        made  == [i \in 1..(Len(sb) + 1) |->
                    IF i = 1
                    THEN [runs[k] EXCEPT !.text = SubSeq(text, cuts[1] + 1, cuts[2])]
                    ELSE [runs[k] EXCEPT !.text = SubSeq(text, cuts[i] + 1, cuts[i + 1]),
                                         !.id = fresh + i - 1]]
    IN  SubSeq(runs, 1, k - 1) \o made \o SubSeq(runs, k + 1, Len(runs))

\* The documented precondition of split_run_by: offsets strictly increasing
\* and strictly between 0 and len(run.text).  Within it the call returns the
\* slices; outside it the call may return the slices all the same or raise.
SplitPrecondition(text, sb) ==
    /\ StrictlyIncreasing(sb)
    /\ \A i \in 1..Len(sb) : 0 < sb[i] /\ sb[i] < Len(text)

(***************************************************************************)
(* redact_document                                                         *)
(***************************************************************************)
\* lines 111-117: the run is the whole match
RedactWhole(run, rw, c) ==
    [run EXCEPT !.text = IF rw # None THEN rw[1] ELSE @,
                !.highlight_color = redact_colors(c).highlight,
                !.rgb = redact_colors(c).rgb]

\* A piece redacted whatever its flag says (line 123 lost).
RedactPieceAlways(highlight, run, rw, c) ==
    [run EXCEPT !.text = IF rw # None THEN rw[1] ELSE @,
                !.highlight_color = redact_colors(c).highlight,
                !.rgb = redact_colors(c).rgb]

\* A piece coloured but never replaced (lines 125-126 lost).
RedactPieceKeepText(highlight, run, rw, c) ==
    IF highlight
    THEN [run EXCEPT !.highlight_color = redact_colors(c).highlight,
                     !.rgb = redact_colors(c).rgb]
    ELSE run

\* lines 123-130: one (highlight, run) of the zip
RedactPiece(highlight, run, rw, c) ==
    IF highlight
    THEN [run EXCEPT !.text = IF rw # None THEN rw[1] ELSE @,
                     !.highlight_color = redact_colors(c).highlight,
                     !.rgb = redact_colors(c).rgb]
    ELSE run

\* line 120: matches[1:-1]
InteriorOffsets(m) == SubSeq(m, 2, Len(m) - 1)

\* lines 122-130: zip(highlights, new_runs); the n new runs sit at k..k+n-1
ApplyHighlights(runs, k, h, n, rw, c) ==
    LET paired == IF Len(h) < n THEN Len(h) ELSE n
    IN  [j \in 1..Len(runs) |->
            IF j >= k /\ j < k + paired
            THEN RedactPiece(h[j - k + 1], runs[j], rw, c)
            ELSE runs[j]]

\* lines 106-110: the branch an iteration takes
Branch(h, m) ==
    IF ~(Len(h) > 0 /\ Len(m) > 0) THEN "skip"
    ELSE IF Len(h) # Len(m) - 1 THEN "mismatch"
    ELSE IF Len(m) = 2 THEN "inplace"
    ELSE "split"

\* A loop that starts one run short of the last.
StartIndexShort(runs) == Len(runs) - 2

\* line 98
StartIndex(runs) == Len(runs) - 1

(***************************************************************************)
(* Inputs of process_matches taken alone: every list of match pairs that   *)
(* is ordered by start, non-overlapping and within [0, len(run_text)],     *)
(* zero-length pairs included, and the two texts the documentation names.  *)
(***************************************************************************)
\* The valid lists of exactly n pairs, built pair by pair
RECURSIVE PairListsOf(_, _)
PairListsOf(len, n) ==
    IF n = 0 THEN {<<>>}
    ELSE UNION {UNION {{Append(mp, <<s, e>>) : e \in s..len} :
                       s \in (IF mp = <<>> THEN 0 ELSE Last(mp)[2])..len} :
                mp \in PairListsOf(len, n - 1)}

PairLists(len) == UNION {PairListsOf(len, n) : n \in 0..MaxSpans}

Scenario1Text ==
    <<"c", "a", "l", "l", " ", "5", "5", "5", "-", "1", "2", "3", "4", " ", "n", "o", "w">>

Scenario5Text == <<"f", "o", "o", "b", "a", "r">>

PMInputs ==
    UNION {{[mp |-> mp, text |-> Chars(len, "a")] : mp \in PairLists(len)} :
           len \in 0..MaxPMLen}
    \cup {[mp |-> <<<<5, 14>>>>, text |-> Scenario1Text],
          [mp |-> <<<<0, 3>>, <<3, 6>>>>, text |-> Scenario5Text]}

(***************************************************************************)
(* Specification of process_matches taken alone: Init draws its arguments, *)
(* PMCall applies it.  The document variables are idle.                    *)
(***************************************************************************)
docVars == <<doc, pattern, replace_with, color, para_index, run_index,
             path, split_by, new_runs, before, visited, pass, first_pass>>

PMInit ==
    /\ \E in \in PMInputs : match_pairs = in.mp /\ run_text = in.text
    /\ highlights = <<>>
    /\ matches = <<>>
    /\ pc = "call"
    /\ doc = <<>> /\ pattern = <<>> /\ replace_with = None /\ color = "none"
    /\ para_index = -1 /\ run_index = -1
    /\ path = "none" /\ split_by = None /\ new_runs = 0
    /\ before = <<>> /\ visited = <<>> /\ pass = 1 /\ first_pass = None

PMCall ==
    /\ pc = "call"
    /\ LET r == process_matches(match_pairs, run_text)
       IN  highlights' = r.highlights /\ matches' = r.matches
    /\ pc' = "return"
    /\ UNCHANGED <<match_pairs, run_text>>
    /\ UNCHANGED docVars

PMNext == PMCall

SpecPM == PMInit /\ [][PMNext]_vars

(***************************************************************************)
(* Inputs of redact_document: documents over a two-letter alphabet, the    *)
(* pattern lists below, and the documents the documentation names.         *)
(***************************************************************************)
Alphabet == {"a", "b"}

Texts == SeqsUpTo(Alphabet, MaxChars)

RECURSIVE Sum(_)
Sum(ns) == IF ns = <<>> THEN 0 ELSE Head(ns) + Sum(Tail(ns))

\* A paragraph as loaded: run i has its own formatting and identity
Para(ts) == [i \in 1..Len(ts) |-> NewRun(ts[i], i)]

\* The texts of the runs of a paragraph
RunTexts ==
    {ts \in SeqsUpTo(Texts, MaxRuns) : Sum([i \in 1..Len(ts) |-> Len(ts[i])]) <= MaxChars}

\* Every one-paragraph document within the bounds
SmallDocs == {<<Para(ts)>> : ts \in RunTexts}

\* Documents of several paragraphs
MultiParaDocs ==
    {<<Para(<<<<"a", "b">>>>), Para(<<<<"a">>, <<"b", "a">>>>)>>,
     <<Para(<<>>), Para(<<<<"b">>>>), Para(<<<<"a", "a", "b">>, <<>>>>)>>}

PatternLists ==
    {<<Lit(<<"a">>)>>,
     <<Lit(<<"a", "b">>)>>,
     <<Lit(<<"a">>), Lit(<<"b">>)>>,
     <<Lit(<<"a", "b">>), Lit(<<"a">>)>>,
     <<DotStar>>,
     <<Lit(<<>>)>>,
     <<Lit(<<>>), Lit(<<"a">>)>>,
     <<Bol(<<"a">>)>>,
     <<Lit(<<"b">>), Bol(<<"a">>)>>}

Replacements == {None, Some(<<"X">>)}

\* The colour option: absent, or one of the two names redact_colors knows
Colors == {"none", "white", "yellow"}

SmallInputs ==
    {[doc |-> d, pattern |-> pt, replace_with |-> rw, color |-> "none"] :
        d \in SmallDocs, pt \in PatternLists, rw \in Replacements}

MultiParaInputs ==
    {[doc |-> d, pattern |-> pt, replace_with |-> rw, color |-> c] :
        d \in MultiParaDocs, pt \in PatternLists, rw \in Replacements, c \in Colors}

Scenario2Text == <<"s", "e", "c", "r", "e", "t", "s", "e", "c", "r", "e", "t">>

Scenario3Text ==
    <<"S", "S", "N", ":", " ", "1", "2", "3", "-", "4", "5", "-", "6", "7", "8", "9">>

OneRunDoc(text) == <<<<NewRun(text, 1)>>>>

ScenarioInputs ==
    {[doc |-> OneRunDoc(Scenario1Text), replace_with |-> None, color |-> "none",
      pattern |-> <<Lit(<<"5", "5", "5", "-", "1", "2", "3", "4">>)>>],
     [doc |-> OneRunDoc(Scenario2Text), replace_with |-> Some(<<"X", "X", "X">>),
      color |-> "none", pattern |-> <<Lit(<<"s", "e", "c", "r", "e", "t">>)>>],
     [doc |-> OneRunDoc(Scenario3Text), replace_with |-> Some(<<"X">>),
      color |-> "none", pattern |-> <<DotStar>>],
     [doc |-> OneRunDoc(Scenario3Text), replace_with |-> Some(<<"X">>),
      color |-> "none", pattern |-> <<Lit(Scenario3Text)>>],
     [doc |-> OneRunDoc(Scenario5Text), replace_with |-> None, color |-> "none",
      pattern |-> <<Lit(<<"f", "o", "o">>), Lit(<<"b", "a", "r">>)>>]}

(***************************************************************************)
(* Specification of redact_document: one action per iteration of the loop  *)
(* over the runs, one per step of the loop over the paragraphs, one for    *)
(* the save, and one for running the program again on the saved file.      *)
(***************************************************************************)
Init ==
    /\ \E in \in SmallInputs \cup MultiParaInputs \cup ScenarioInputs :
          /\ doc = in.doc
          /\ pattern = in.pattern
          /\ replace_with = in.replace_with
          /\ color = in.color
    /\ para_index = -1
    /\ run_index = -1
    /\ pc = "loop"
    /\ match_pairs = <<>> /\ run_text = <<>> /\ highlights = <<>> /\ matches = <<>>
    /\ path = "none" /\ split_by = None /\ new_runs = 0
    /\ before = <<>> /\ visited = <<>>
    /\ pass = 1
    /\ first_pass = None

\* lines 96-98: the next paragraph of the for loop, once the while loop is over
NextPara ==
    /\ pc = "loop"
    /\ run_index = -1
    /\ para_index + 1 < Len(doc)
    /\ para_index' = para_index + 1
    /\ run_index' = StartIndex(doc[para_index + 2])
    /\ before' = doc[para_index + 2]
    /\ visited' = <<>>
    /\ UNCHANGED <<doc, pattern, replace_with, color, pc, match_pairs, run_text,
                   highlights, matches, path, split_by, new_runs, pass, first_pass>>

\* line 100: run = para.runs[run_index]
IterRun == doc[para_index + 1][run_index + 1]

\* line 102
IterPairs == finditer(pattern, IterRun.text)

\* line 104
IterPM == process_matches(IterPairs, IterRun.text)

\* lines 99-132: one iteration of the while loop
VisitRun ==
    /\ pc = "loop"
    /\ para_index >= 0
    /\ run_index > -1
    /\ LET para == doc[para_index + 1]
           k    == run_index + 1
           br   == Branch(IterPM.highlights, IterPM.matches)
           sb   == InteriorOffsets(IterPM.matches)
           done == CASE br = "inplace" ->
                         [para EXCEPT ![k] = RedactWhole(IterRun, replace_with, color)]
                     [] br = "split" ->
                         ApplyHighlights(split_run_by(para, k, sb), k, IterPM.highlights,
                                         Len(sb) + 1, replace_with, color)
                     [] OTHER -> para
       IN  /\ match_pairs' = IterPairs
           /\ run_text' = IterRun.text
           /\ highlights' = IterPM.highlights
           /\ matches' = IterPM.matches
           /\ path' = br
           /\ split_by' = IF br = "split" THEN Some(sb) ELSE None
           /\ new_runs' = IF br = "split" THEN Len(sb) + 1 ELSE 0
           /\ doc' = [doc EXCEPT ![para_index + 1] = done]
           /\ visited' = Append(visited, IterRun.id)
    /\ run_index' = run_index - 1
    /\ UNCHANGED <<pattern, replace_with, color, para_index, pc, before, pass,
                   first_pass>>

\* lines 99-120: an iteration whose split_run_by call is handed offsets
\* outside its precondition and raises; nothing catches the exception, so
\* redact_document ends there and nothing is saved.
VisitRunRaises ==
    /\ pc = "loop"
    /\ para_index >= 0
    /\ run_index > -1
    /\ Branch(IterPM.highlights, IterPM.matches) = "split"
    /\ ~SplitPrecondition(IterRun.text, InteriorOffsets(IterPM.matches))
    /\ match_pairs' = IterPairs
    /\ run_text' = IterRun.text
    /\ highlights' = IterPM.highlights
    /\ matches' = IterPM.matches
    /\ path' = "split"
    /\ split_by' = Some(InteriorOffsets(IterPM.matches))
    /\ new_runs' = 0
    /\ visited' = Append(visited, IterRun.id)
    /\ pc' = "failed"
    /\ UNCHANGED <<doc, pattern, replace_with, color, para_index, run_index, before,
                   pass, first_pass>>

\* line 134: doc.save(output_path)
Save ==
    /\ pc = "loop"
    /\ run_index = -1
    /\ para_index + 1 >= Len(doc)
    /\ pc' = "saved"
    /\ first_pass' = IF pass = 1 THEN Some(doc) ELSE first_pass
    /\ UNCHANGED <<doc, pattern, replace_with, color, para_index, run_index,
                   match_pairs, run_text, highlights, matches, path, split_by,
                   new_runs, before, visited, pass>>

\* The program run again on the saved file with the same arguments.
Rerun ==
    /\ pc = "saved"
    /\ pass < MaxPasses
    /\ pass' = pass + 1
    /\ pc' = "loop"
    /\ para_index' = -1
    /\ run_index' = -1
    /\ match_pairs' = <<>> /\ run_text' = <<>> /\ highlights' = <<>> /\ matches' = <<>>
    /\ path' = "none" /\ split_by' = None /\ new_runs' = 0
    /\ before' = <<>> /\ visited' = <<>>
    /\ UNCHANGED <<doc, pattern, replace_with, color, first_pass>>

Next == NextPara \/ VisitRun \/ VisitRunRaises \/ Save \/ Rerun

Spec == Init /\ [][Next]_vars

(***************************************************************************)
(* Properties of process_matches (checked under SpecPM).                   *)
(***************************************************************************)
CountTrue(s) == Cardinality({i \in 1..Len(s) : s[i]})

Contiguous(mp) == \A i \in 1..(Len(mp) - 1) : mp[i][2] = mp[i + 1][1]

\* C1: for a non-empty list of match pairs that is ordered, non-overlapping
\* and within [0, L], zero-length pairs included, the returned offsets are
\* strictly increasing, start with 0 and end with L.
OffsetsStrictlyIncreasing ==
    (pc = "return" /\ Len(match_pairs) > 0)
        => /\ StrictlyIncreasing(matches)
           /\ matches[1] = 0
           /\ Last(matches) = Len(run_text)

\* C2: N >= 1 match pairs give exactly N true highlights and
\* len(offsets) = len(highlights) + 1; no match pair gives two empty lists.
CoverageInvariant ==
    pc = "return"
        => IF Len(match_pairs) >= 1
           THEN /\ CountTrue(highlights) = Len(match_pairs)
                /\ Len(matches) = Len(highlights) + 1
           ELSE highlights = <<>> /\ matches = <<>>

CoverageWitness ==
    /\ pc = "return"
    /\ Len(match_pairs) = 2
    /\ match_pairs[1][1] > 0
    /\ match_pairs[1][2] < match_pairs[2][1]
    /\ match_pairs[2][2] < Len(run_text)
    /\ highlights = <<FALSE, TRUE, FALSE, TRUE, FALSE>>

\* C7 as stated: two contiguous match pairs give one combined highlighted
\* segment; [0,3) and [3,6) on "foobar" give offsets [0,6] and one highlight.
ContiguousCombined ==
    (/\ pc = "return"
     /\ Len(match_pairs) = 2
     /\ Contiguous(match_pairs)
     /\ \A i \in 1..2 : match_pairs[i][1] < match_pairs[i][2])
        => /\ CountTrue(highlights) = 1
           /\ (run_text = Scenario5Text /\ match_pairs = <<<<0, 3>>, <<3, 6>>>>)
                  => (matches = <<0, 6>> /\ highlights = <<TRUE>>)

\* C7 as amended: contiguous match pairs give one highlighted segment each,
\* with no non-highlighted segment between them and the shared boundary kept
\* as an offset; [0,3) and [3,6) on "foobar" give offsets [0,3,6] and
\* highlights [true, true].
ContiguousAdjacent ==
    (pc = "return" /\ Len(match_pairs) >= 2 /\ Contiguous(match_pairs))
        => LET n     == Len(match_pairs)
               lead  == match_pairs[1][1] # 0
               trail == match_pairs[n][2] # Len(run_text)
           IN  /\ highlights = (IF lead THEN <<FALSE>> ELSE <<>>)
                                  \o Chars(n, TRUE)
                                  \o (IF trail THEN <<FALSE>> ELSE <<>>)
               /\ matches = (IF lead THEN <<0>> ELSE <<>>)
                               \o <<match_pairs[1][1]>>
                               \o [i \in 1..n |-> match_pairs[i][2]]
                               \o (IF trail THEN <<Len(run_text)>> ELSE <<>>)
               /\ (run_text = Scenario5Text /\ match_pairs = <<<<0, 3>>, <<3, 6>>>>)
                      => (matches = <<0, 3, 6>> /\ highlights = <<TRUE, TRUE>>)

ContiguousWitness ==
    /\ pc = "return"
    /\ run_text = Scenario5Text
    /\ match_pairs = <<<<0, 3>>, <<3, 6>>>>
    /\ matches = <<0, 3, 6>>

InParagraph == pc \in {"loop", "saved"} /\ para_index >= 0

ParaDone == InParagraph /\ run_index = -1

CurPara == doc[para_index + 1]

PosOf(runs, id) == CHOOSE j \in 1..Len(runs) : runs[j].id = id

SpansOf(run) == finditer(pattern, run.text)

\* text with every span of mp replaced by rw, or kept when rw is None
RECURSIVE SubstFrom(_, _, _, _, _)
SubstFrom(text, mp, i, pos, rw) ==
    IF i > Len(mp) THEN SubSeq(text, pos + 1, Len(text))
    ELSE SubSeq(text, pos + 1, mp[i][1])
            \o (IF rw # None THEN rw[1] ELSE SubSeq(text, mp[i][1] + 1, mp[i][2]))
            \o SubstFrom(text, mp, i + 1, mp[i][2], rw)

Subst(text, mp, rw) == SubstFrom(text, mp, 1, 0, rw)

\* the run loaded at position i of the paragraph is still followed by the
\* run loaded at position i + 1 (or by nothing): no run was inserted after it
NotSplit(i) ==
    LET j == PosOf(CurPara, before[i].id)
    IN  IF i = Len(before) THEN j = Len(CurPara)
        ELSE CurPara[j + 1].id = before[i + 1].id

\* C3: once a paragraph is processed, its run texts concatenate to the
\* original run texts with every matched span replaced by the replacement
\* (kept when there is none), and a run without a match keeps its text and
\* formatting and is not split.
ParagraphTextPreserved ==
    ParaDone
        => /\ Concat([j \in 1..Len(CurPara) |-> CurPara[j].text])
                = Concat([i \in 1..Len(before) |->
                            Subst(before[i].text, SpansOf(before[i]), replace_with)])
           /\ \A i \in 1..Len(before) :
                 SpansOf(before[i]) = <<>>
                    => /\ CurPara[PosOf(CurPara, before[i].id)] = before[i]
                       /\ NotSplit(i)

ParagraphTextWitness ==
    /\ ParaDone
    /\ replace_with # None
    /\ Len(before) = 2
    /\ SpansOf(before[1]) = <<>>
    /\ before[1].text # <<>>
    /\ Len(SpansOf(before[2])) = 1
    /\ Len(CurPara) = 3
    /\ CurPara[2].text = replace_with[1]
    /\ CurPara[3].text # <<>>
    /\ CurPara[3].highlight_color = "None"

\* C4: the loop matches the runs the paragraph was loaded with from the last
\* down to the first, each exactly once and no inserted run ever, and the
\* runs below the current index are as loaded, at the same indices.
ReverseVisitOnce ==
    InParagraph
        => /\ Len(visited) = Len(before) - (run_index + 1)
           /\ \A j \in 1..Len(visited) : visited[j] = before[Len(before) - j + 1].id
           /\ \A j \in 1..(run_index + 1) : CurPara[j] = before[j]

ReverseVisitWitness ==
    /\ ParaDone
    /\ Len(before) = 2
    /\ visited = <<2, 1>>
    /\ Len(CurPara) = 3
    /\ CurPara[2].id = 2
    /\ CurPara[3].id = 3
    /\ CurPara[1] = before[1]
    /\ SpansOf(before[1]) = <<>>

\* C5: a run whose text is matched from 0 to its length is redacted in
\* place: the splitter is not called, no run is added, the run gets the
\* highlight and the text colour, and the replacement as text when given.
WholeRunInPlace ==
    (/\ InParagraph
     /\ visited # <<>>
     /\ Len(run_text) > 0
     /\ Len(match_pairs) > 0
     /\ match_pairs[1] = <<0, Len(run_text)>>)
        => /\ path = "inplace"
           /\ split_by = None
           /\ new_runs = 0
           /\ LET run == CurPara[PosOf(CurPara, Last(visited))]
              IN  /\ run.highlight_color = redact_colors(color).highlight
                  /\ run.rgb = redact_colors(color).rgb
                  /\ replace_with # None => run.text = replace_with[1]

\* The length check of lines 107-108 never fires: process_matches returns
\* len(highlights) = len(matches) - 1 for every list the matcher produces, so
\* no behaviour shows what the loop does after a mismatch (C6).
MismatchUnreachable == path # "mismatch"

ReplacementUnmatched ==
    replace_with # None /\ finditer(pattern, replace_with[1]) = <<>>

Unanchored == \A i \in 1..Len(pattern) : pattern[i].kind # "bol"

\* C8 as stated: when the replacement matches no pattern, a second run of
\* the program splits and replaces nothing and leaves the document as the
\* first run saved it.
SecondPassNoOp ==
    (pass >= 2 /\ ReplacementUnmatched)
        => /\ doc = first_pass[1]
           /\ path \in {"none", "skip"}

\* C8 as amended: the same, when in addition no pattern is anchored to the
\* start of the run text.
SecondPassNoOpUnanchored ==
    (pass >= 2 /\ ReplacementUnmatched /\ Unanchored)
        => /\ doc = first_pass[1]
           /\ path \in {"none", "skip"}

SecondPassWitness ==
    /\ pass = 2
    /\ pc = "saved"
    /\ ReplacementUnmatched
    /\ Unanchored
    /\ Len(before) = 3
    /\ visited = <<3, 2, 1>>
    /\ before[2].text = replace_with[1]
    /\ before[2].highlight_color # "None"
    /\ before[1].highlight_color = "None"
    /\ before[1].text # <<>>
    /\ before[3].text # <<>>

\* C10: every call of the splitter gets offsets that are non-empty, strictly
\* increasing and strictly between 0 and the length of the run's text, and
\* returns one run per highlight flag.
SplitterPrecondition ==
    (para_index >= 0 /\ path = "split")
        => /\ split_by # None
           /\ split_by[1] # <<>>
           /\ SplitPrecondition(run_text, split_by[1])
           /\ pc # "failed"
           /\ new_runs = Len(highlights)
====
